---- MODULE Spec2Model ----
(***************************************************************************)
(* Model of src/utils/resume_format_checker.py: check_resume_format, its   *)
(* nested validate_format and get_example_snippet, the consolidation loop  *)
(* and the rendering of the composite logger message.                      *)
(*                                                                         *)
(* Python values are tagged records: [t |-> type(v).__name__], with the    *)
(* items of a dict in field d (a function from key to value) and the items *)
(* of a list in field l (a sequence).  Python strings that the code splits *)
(* and slices (the paths) are sequences of one-character strings; Chars    *)
(* gives the characters of each key of the schema.                         *)
(***************************************************************************)
EXTENDS Integers, Sequences, FiniteSets, TLC

VARIABLES
  actual_yaml_dict,     \* the parsed document, yaml.safe_load's result
  pc,                   \* position inside check_resume_format
  errors,               \* validate_format's result for the current call
  consolidated_errors,  \* insertion-ordered groups built from errors
  exception,            \* "None", or the exception that ended the call
  result,               \* None, or Some(b) for the boolean b the call returned
  logged,               \* every message handed to config.logger.error
  log_mark,             \* Len(logged) when the current call started
  calls,                \* number of calls started on this document
  history               \* outcome of validate_format in each call so far

vars == <<actual_yaml_dict, pc, errors, consolidated_errors, exception,
          result, logged, log_mark, calls, history>>

\* Longest 'experiences' list of the documents.
MaxEntries == 3

\* Number of times check_resume_format is called on the same document.
MaxCalls == 2

---------------------------------------------------------------------------
(* Strings                                                                 *)

\* The characters of each key of expected_format.
Chars ==
  [
    editing |-> <<"e", "d", "i", "t", "i", "n", "g">>,
    debug |-> <<"d", "e", "b", "u", "g">>,
    basic |-> <<"b", "a", "s", "i", "c">>,
    name |-> <<"n", "a", "m", "e">>,
    address |-> <<"a", "d", "d", "r", "e", "s", "s">>,
    email |-> <<"e", "m", "a", "i", "l">>,
    phone |-> <<"p", "h", "o", "n", "e">>,
    websites |-> <<"w", "e", "b", "s", "i", "t", "e", "s">>,
    objective |-> <<"o", "b", "j", "e", "c", "t", "i", "v", "e">>,
    education |-> <<"e", "d", "u", "c", "a", "t", "i", "o", "n">>,
    school |-> <<"s", "c", "h", "o", "o", "l">>,
    degrees |-> <<"d", "e", "g", "r", "e", "e", "s">>,
    names |-> <<"n", "a", "m", "e", "s">>,
    experiences |-> <<"e", "x", "p", "e", "r", "i", "e", "n", "c", "e", "s">>,
    company |-> <<"c", "o", "m", "p", "a", "n", "y">>,
    location |-> <<"l", "o", "c", "a", "t", "i", "o", "n">>,
    titles |-> <<"t", "i", "t", "l", "e", "s">>,
    startdate |-> <<"s", "t", "a", "r", "t", "d", "a", "t", "e">>,
    enddate |-> <<"e", "n", "d", "d", "a", "t", "e">>,
    highlights |-> <<"h", "i", "g", "h", "l", "i", "g", "h", "t", "s">>,
    skills |-> <<"s", "k", "i", "l", "l", "s">>,
    category |-> <<"c", "a", "t", "e", "g", "o", "r", "y">>
  ]

Digit == <<"0", "1", "2", "3", "4", "5", "6", "7", "8", "9">>

\* str(n) for a list index n, as f"{index}" formats it.
RECURSIVE IntStr(_)
IntStr(n) ==
  IF n < 10 THEN <<Digit[n + 1]>>
  ELSE IntStr(n \div 10) \o <<Digit[(n % 10) + 1]>>

\* s.split(sep) for a one-character separator: always at least one piece.
RECURSIVE Split(_, _)
Split(s, sep) ==
  IF \E i \in 1..Len(s) : s[i] = sep
  THEN LET i == CHOOSE j \in 1..Len(s) :
                  s[j] = sep /\ \A h \in 1..(j - 1) : s[h] # sep
       IN <<SubSeq(s, 1, i - 1)>> \o Split(SubSeq(s, i + 1, Len(s)), sep)
  ELSE <<s>>

\* s[:-1]
ButLast(s) == SubSeq(s, 1, Len(s) - 1)

\* The path extended without the separating '/'.
KeyPathNoSlash(path, key) == path \o Chars[key]

\* f"{path}/{key}"
KeyPath(path, key) == path \o <<"/">> \o Chars[key]

\* f"{path}[{index}]", index counted from 0
IndexPath(path, index) == path \o <<"[">> \o IntStr(index) \o <<"]">>

---------------------------------------------------------------------------
(* The schema and the example table                                        *)

\* A Python type used as a schema leaf: bool, str
Type(n) == [k |-> "type", name |-> n]
\* A tuple of types: (int, str)
TupleOf(ts) == [k |-> "tuple", types |-> ts]
\* A list literal holding its element schema
ListOf(e) == [k |-> "list", elems |-> <<e>>]
\* A dict literal; fields keep the insertion order of the literal
DictOf(fs) == [k |-> "dict", fields |-> fs]
Field(key, val) == [key |-> key, val |-> val]
\* A Python str value in the 'expected' position of an error triple
PyStr(s) == [k |-> "pystr", s |-> s]

\* Lines 13-40: the schema literal.
expected_format ==
  DictOf(<<
    Field("editing", Type("bool")),
    Field("debug", Type("bool")),
    Field("basic", DictOf(<<
      Field("name", Type("str")),
      Field("address", Type("str")),
      Field("email", Type("str")),
      Field("phone", Type("str")),
      Field("websites", ListOf(Type("str"))) >>)),
    Field("objective", Type("str")),
    Field("education", ListOf(DictOf(<<
      Field("school", Type("str")),
      Field("degrees", ListOf(DictOf(<<
        Field("names", ListOf(Type("str"))) >>))) >>))),
    Field("experiences", ListOf(DictOf(<<
      Field("company", Type("str")),
      Field("location", Type("str")),
      Field("titles", ListOf(DictOf(<<
        Field("name", Type("str")),
        Field("startdate", TupleOf(<<"int", "str">>)),
        Field("enddate", TupleOf(<<"int", "str">>)) >>))),
      Field("highlights", ListOf(Type("str"))) >>))),
    Field("skills", ListOf(DictOf(<<
      Field("category", Type("str")),
      Field("skills", ListOf(Type("str"))) >>)))
  >>)

\* Lines 42-97: the example of each top-level section.
example_snippets ==
  [
    editing |-> "editing: true",
    debug |-> "debug: false",
    basic |-> "basic:\n  name: John Doe\n  address: Los Angeles, CA\n  email: johndoe@example.com\n  phone: 555-123-4567\n  websites:\n      - https://linkedin.com/johndoe\n      - https://github.com/johndoe",
    objective |-> "objective: A Software Engineer with over 8 years of experience...",
    education |-> "education:\n  - school: University of California, Berkeley\n    degrees:\n      - names:\n          - B.S. Computer Science\n  - school: Stanford University\n    degrees:\n      - names:\n          - M.S. Computer Science",
    experiences |-> "experiences:\n  - company: Tech Innovators Inc.\n    location: San Francisco, CA\n    titles:\n      - name: Lead Software Engineer\n        startdate: 2022\n        enddate: 2024\n    highlights:\n      - Led the development of a cloud-based platform, increasing user engagement by 50%.\n      - Implemented a microservices architecture, reducing system downtime by 30%.\n      - Mentored a team of junior developers, fostering a culture of continuous learning and improvement.\n      - Spearheaded the integration of AI-driven features, enhancing product capabilities and user satisfaction.",
    skills |-> "skills:\n  - category: Technical\n    skills:\n      - JavaScript\n      - Python\n      - AWS\n      - Docker\n      - Kubernetes\n      - React\n      - Node.js\n      - Microservices\n      - CI/CD\n      - SQL\n      - NoSQL\n      - REST APIs\n  - category: Non-technical\n    skills:\n      - Strong problem-solving skills\n      - Excellent communication\n      - Team leadership\n      - Project management\n      - Agile methodologies"
  ]

---------------------------------------------------------------------------
(* Python values                                                           *)

Scalar(t) == [t |-> t]
PyList(l) == [t |-> "list", l |-> l]
PyDict(d) == [t |-> "dict", d |-> d]

\* A type test by exact type: type(actual) is cls.
IsInstanceExact(actual, cls) == actual.t = cls

\* isinstance(actual, cls) for a class named cls: bool is a subclass of int.
IsInstance(actual, cls) ==
  \/ actual.t = cls
  \/ cls = "int" /\ actual.t = "bool"

\* What a call returns: a list of errors, or the exception it raised.
Returned(errs) == [exc |-> "None", errors |-> errs]
Raised(e) == [exc |-> e, errors |-> <<>>]

---------------------------------------------------------------------------
(* validate_format                                                         *)

RECURSIVE validate_format(_, _, _)
RECURSIVE validate_keys(_, _, _, _)
RECURSIVE validate_items(_, _, _, _)

\* The loop of lines 114-118 from the i-th field of the schema dict on.
validate_keys(actual, fields, path, i) ==
  IF i > Len(fields) THEN Returned(<<>>)
  ELSE
    LET key == fields[i].key
        expected_type == fields[i].val
        head == IF key \notin DOMAIN actual.d
                THEN Returned(<< <<KeyPath(path, key), expected_type, "missing">> >>)
                ELSE validate_format(actual.d[key], expected_type, KeyPath(path, key))
    IN IF head.exc # "None" THEN head
       ELSE LET rest == validate_keys(actual, fields, path, i + 1)
            IN IF rest.exc # "None" THEN rest
               ELSE Returned(head.errors \o rest.errors)

\* The loop of lines 126-127 from the i-th item (1-based here) on.
validate_items(items, expected0, path, i) ==
  IF i > Len(items) THEN Returned(<<>>)
  ELSE
    LET head == validate_format(items[i], expected0, IndexPath(path, i - 1))
    IN IF head.exc # "None" THEN head
       ELSE LET rest == validate_items(items, expected0, path, i + 1)
            IN IF rest.exc # "None" THEN rest
               ELSE Returned(head.errors \o rest.errors)

\* A mapping checked for exact shape: keys outside the schema are errors too.
validate_dict_exact(actual, expected, path) ==
  LET known == {expected.fields[i].key : i \in 1..Len(expected.fields)}
      r == validate_keys(actual, expected.fields, path, 1)
  IN IF r.exc = "None" /\ (DOMAIN actual.d) \ known # {}
     THEN Returned(Append(r.errors, <<path, PyStr("dict"), "dict">>))
     ELSE r

\* Lines 113-119: the actual value is a dict.
validate_dict(actual, expected, path) ==
  validate_keys(actual, expected.fields, path, 1)

\* Lines 129-132: expected is a type or a tuple of types.  A tuple has no
\* __name__, so reporting a mismatch against a tuple raises AttributeError.
validate_scalar(actual, expected, path) ==
  IF expected.k = "tuple"
  THEN IF \E i \in 1..Len(expected.types) : IsInstance(actual, expected.types[i])
       THEN Returned(<<>>)
       ELSE Raised("AttributeError")
  ELSE IF IsInstance(actual, expected.name)
       THEN Returned(<<>>)
       ELSE Returned(<< <<path, PyStr(expected.name), actual.t>> >>)

\* Lines 99-132.
validate_format(actual, expected, path) ==
  IF expected.k = "dict"
  THEN IF actual.t # "dict"
       THEN Returned(<< <<path, PyStr("dict"), actual.t>> >>)
       ELSE validate_dict(actual, expected, path)
  ELSE IF expected.k = "list"
  THEN IF actual.t # "list"
       THEN Returned(<< <<path, PyStr("list"), actual.t>> >>)
       ELSE IF Len(expected.elems) = 0
            THEN Returned(<<>>)
            ELSE validate_items(actual.l, expected.elems[1], path, 1)
  ELSE validate_scalar(actual, expected, path)

---------------------------------------------------------------------------
(* get_example_snippet, consolidation and rendering                        *)

\* An optional Python value: <<>> is None, <<v>> is the value v.
None == <<>>
Some(v) == <<v>>

\* example_snippets.get(key, None) for a key given by its characters.
SnippetGet(snippets, key) ==
  IF \E n \in DOMAIN snippets : Chars[n] = key
  THEN Some(snippets[CHOOSE n \in DOMAIN snippets : Chars[n] = key])
  ELSE None

\* get_example_snippet reading the piece before the first '/' (always empty).
get_example_snippet_first_piece(path) ==
  LET key == Split(path, "/")[1]
  IN SnippetGet(example_snippets, Split(key, "[")[1])

\* Lines 139-150.  The only call passes f"/{main_key}", so [1] exists.
get_example_snippet(path) ==
  LET key == Split(path, "/")[2]
  IN SnippetGet(example_snippets, Split(key, "[")[1])

\* f"{example_snippet}": None is formatted as the text None.
FormatSnippet(opt) == IF opt = None THEN "None" ELSE opt[1]

HasGroup(groups, main_key) == \E g \in 1..Len(groups) : groups[g].key = main_key
GroupIndex(groups, main_key) == CHOOSE g \in 1..Len(groups) : groups[g].key = main_key

\* Line 159: a new, empty group.
NewGroup(main_key) ==
  [key |-> main_key, missing |-> <<>>, incorrect |-> <<>>, entries |-> <<>>]

\* The body of the loop of lines 154-170 for one error triple.
consolidate_one(groups, error) ==
  LET path == error[1]
      expected == error[2]
      actual == error[3]
      pieces == Split(path, "/")
  IN
  IF Len(pieces) < 2 THEN [exc |-> "IndexError", groups |-> groups]
  ELSE
    LET main_key == pieces[2]
        sub_key == pieces[Len(pieces)]
        g1 == IF HasGroup(groups, main_key) THEN groups
              ELSE Append(groups, NewGroup(main_key))
        g == GroupIndex(g1, main_key)
    IN
    IF main_key = Chars.experiences /\ Len(pieces) < 3
    THEN [exc |-> "IndexError", groups |-> g1]
    ELSE
      LET g2 ==
            IF main_key = Chars.experiences
            THEN LET inner == Split(pieces[3], "[")
                     entry_index == ButLast(inner[Len(inner)])
                     label == Chars.experiences \o <<"[">> \o entry_index \o <<"]">>
                 IN [g1 EXCEPT ![g].entries = Append(@, label)]
            ELSE g1
      IN
      IF actual = "missing"
      THEN [exc |-> "None",
            groups |-> [g2 EXCEPT ![g].missing = Append(@, sub_key)]]
      ELSE IF expected.k = "pystr"
      THEN [exc |-> "None",
            groups |-> [g2 EXCEPT ![g].incorrect =
                                     Append(@, <<sub_key, actual, expected.s>>)]]
      ELSE IF expected.k = "type"
      THEN [exc |-> "None",
            groups |-> [g2 EXCEPT ![g].incorrect =
                                     Append(@, <<sub_key, actual, expected.name>>)]]
      ELSE [exc |-> "AttributeError", groups |-> g2]

\* Lines 152-170: the loop over the errors from the i-th on.
RECURSIVE consolidate(_, _, _)
consolidate(groups, errs, i) ==
  IF i > Len(errs) THEN [exc |-> "None", groups |-> groups]
  ELSE LET r == consolidate_one(groups, errs[i])
       IN IF r.exc # "None" THEN r ELSE consolidate(r.groups, errs, i + 1)

\* The elements of a sequence, as set(...) collects them.
Range(s) == {s[i] : i \in 1..Len(s)}

\* One paragraph appended to logger_error; the fields a kind does not
\* interpolate are left empty.
Paragraph(kind, main_key, entries, missing_keys, incorrect, snippet) ==
  [kind |-> kind, main_key |-> main_key, entries |-> entries,
   missing_keys |-> missing_keys, incorrect |-> incorrect,
   example_snippet |-> FormatSnippet(snippet)]

\* Lines 182-183: one paragraph per incorrect triple.
RenderIncorrect(main_key, incorrect, snippet) ==
  [i \in 1..Len(incorrect) |->
     Paragraph("incorrect", main_key, {}, <<>>, <<incorrect[i]>>, snippet)]

\* Lines 174-183 for one group.
RenderGroup(group) ==
  LET main_key == group.key
      example_snippet == get_example_snippet(<<"/">> \o main_key)
  IN (IF main_key = Chars.experiences /\ group.entries # <<>>
      THEN <<Paragraph("entries", <<>>, Range(group.entries), <<>>, <<>>,
                       example_snippet)>>
      ELSE <<>>)
     \o
     (IF group.missing # <<>>
      THEN <<Paragraph("missing", main_key, {}, group.missing, <<>>,
                       example_snippet)>>
      ELSE <<>>)
     \o
     RenderIncorrect(main_key, group.incorrect, example_snippet)

\* Lines 171-183: logger_error as the sequence of its paragraphs.
RECURSIVE Render(_, _)
Render(groups, i) ==
  IF i > Len(groups) THEN <<>>
  ELSE RenderGroup(groups[i]) \o Render(groups, i + 1)

---------------------------------------------------------------------------
(* The documents yaml.safe_load can return                                 *)

AStr == Scalar("str")
AInt == Scalar("int")
ABool == Scalar("bool")
AFloat == Scalar("float")
NoneValue == Scalar("NoneType")
\* Marks a key left out of a mapping; never part of a document.
Absent == Scalar("absent")

\* The dict with the keys of r that are not marked Absent.
MakeDict(r) ==
  PyDict([key \in {n \in DOMAIN r : r[n].t # "absent"} |-> r[key]])

EmptyDict == MakeDict([unused |-> Absent])

\* All sequences over S of length 0..n.
SeqsUpTo(S, n) == UNION {[1..m -> S] : m \in 0..n}

BasicGood ==
  PyDict([name |-> AStr, address |-> AStr, email |-> AStr, phone |-> AStr,
          websites |-> PyList(<<AStr, AStr>>)])
BasicExtra ==
  PyDict([name |-> AStr, address |-> AStr, email |-> AStr, phone |-> AStr,
          websites |-> PyList(<<>>), nickname |-> PyList(<<AInt>>)])
BasicBad ==
  PyDict([name |-> AStr, address |-> AStr, phone |-> AInt,
          websites |-> PyList(<<AStr, AInt>>), nickname |-> NoneValue])

EducationGood ==
  PyDict([school |-> AStr,
          degrees |-> PyList(<<PyDict([names |-> PyList(<<AStr>>)])>>)])
EducationBad ==
  PyDict([school |-> AInt,
          degrees |-> PyList(<<PyDict([names |-> AStr]), AStr>>)])

SkillGood == PyDict([category |-> AStr, skills |-> PyList(<<AStr, AStr>>)])

Title(startdate, enddate) ==
  MakeDict([name |-> AStr, startdate |-> startdate, enddate |-> enddate])

Entry(titles) ==
  PyDict([company |-> AStr, location |-> AStr, titles |-> PyList(titles),
          highlights |-> PyList(<<AStr>>)])
EntryGood == Entry(<<Title(AInt, AStr)>>)
\* 'company' missing, 'location' mistyped, and a key the schema lacks.
EntryBad ==
  PyDict([location |-> AInt, titles |-> PyList(<<>>),
          highlights |-> PyList(<<AStr>>), notes |-> AStr])
EntryDated(v) == Entry(<<Title(AStr, AInt), Title(v, AStr)>>)

EntryValues == {EntryGood, EntryBad, AStr, EntryDated(ABool), EntryDated(PyList(<<>>))}

DateValues == {AInt, AStr, ABool, AFloat, NoneValue, PyList(<<>>), EmptyDict, Absent}

Root(editing, debug, basic, objective, education, experiences, skills, summary) ==
  MakeDict([editing |-> editing, debug |-> debug, basic |-> basic,
            objective |-> objective, education |-> education,
            experiences |-> experiences, skills |-> skills,
            summary |-> summary])

\* Every top-level section varied, with a short 'experiences' section.
SectionDocuments ==
  {Root(editing, debug, basic, objective, education, experiences, skills, summary) :
     editing \in {ABool, AStr, Absent},
     debug \in {ABool, Absent},
     basic \in {BasicGood, BasicExtra, BasicBad, AStr, Absent},
     objective \in {AStr, Absent},
     education \in {PyList(<<EducationGood>>),
                    PyList(<<EducationBad, EducationGood, EducationBad>>),
                    Absent},
     experiences \in {PyList(<<EntryGood>>), AStr, Absent},
     skills \in {PyList(<<>>), PyList(<<SkillGood>>), Absent},
     summary \in {Absent, PyList(<<AInt>>)}}

\* The 'experiences' list varied, the other sections conforming.
ExperiencesDocuments ==
  {Root(ABool, ABool, BasicGood, AStr, PyList(<<EducationGood>>),
        PyList(entries), PyList(<<SkillGood>>), Absent) :
     entries \in SeqsUpTo(EntryValues, MaxEntries)}

\* One entry with one title, its two dates varied.
DateDocuments ==
  {Root(ABool, ABool, BasicGood, AStr, PyList(<<EducationGood>>),
        PyList(<<Entry(<<Title(startdate, enddate)>>)>>),
        PyList(<<SkillGood>>), Absent) :
     startdate \in DateValues, enddate \in DateValues}

\* A root that is not a mapping: an empty file, a scalar, a list.
RootDocuments == {NoneValue, AStr, PyList(<<AStr>>)}

Documents ==
  SectionDocuments \cup ExperiencesDocuments \cup DateDocuments \cup RootDocuments

---------------------------------------------------------------------------
(* check_resume_format                                                     *)

\* A first call, after lines 134-135 have loaded the document.
Init ==
  /\ actual_yaml_dict \in Documents
  /\ pc = "loaded"
  /\ errors = <<>>
  /\ consolidated_errors = <<>>
  /\ exception = "None"
  /\ result = None
  /\ logged = <<>>
  /\ log_mark = 0
  /\ calls = 1
  /\ history = <<>>

\* Line 137: errors = validate_format(actual_yaml_dict, expected_format)
Validate ==
  /\ pc = "loaded"
  /\ LET r == validate_format(actual_yaml_dict, expected_format, <<>>)
     IN /\ errors' = r.errors
        /\ exception' = r.exc
        /\ pc' = IF r.exc = "None" THEN "validated" ELSE "raised"
        /\ history' = Append(history, r)
  /\ UNCHANGED <<actual_yaml_dict, consolidated_errors, result, logged,
                 log_mark, calls>>

\* Lines 152-170: the consolidation loop.
Consolidate ==
  /\ pc = "validated"
  /\ LET r == consolidate(<<>>, errors, 1)
     IN /\ consolidated_errors' = r.groups
        /\ exception' = r.exc
        /\ pc' = IF r.exc = "None" THEN "consolidated" ELSE "raised"
  /\ UNCHANGED <<actual_yaml_dict, errors, result, logged, log_mark, calls,
                 history>>

\* Lines 171-185: render, log once, return False.
LogErrors ==
  /\ pc = "consolidated"
  /\ consolidated_errors # <<>>
  /\ logged' = Append(logged, Render(consolidated_errors, 1))
  /\ result' = Some(FALSE)
  /\ pc' = "returned"
  /\ UNCHANGED <<actual_yaml_dict, errors, consolidated_errors, exception,
                 log_mark, calls, history>>

\* Lines 186-187: nothing to report, return True.
ReturnTrue ==
  /\ pc = "consolidated"
  /\ consolidated_errors = <<>>
  /\ result' = Some(TRUE)
  /\ pc' = "returned"
  /\ UNCHANGED <<actual_yaml_dict, errors, consolidated_errors, exception,
                 logged, log_mark, calls, history>>

\* Lines 134-135 of a further call on the same, unchanged file: the
\* document is loaded again and the locals of the call start afresh.
Call ==
  /\ pc \in {"returned", "raised"}
  /\ calls < MaxCalls
  /\ calls' = calls + 1
  /\ pc' = "loaded"
  /\ errors' = <<>>
  /\ consolidated_errors' = <<>>
  /\ exception' = "None"
  /\ result' = None
  /\ log_mark' = Len(logged)
  /\ UNCHANGED <<actual_yaml_dict, logged, history>>

Next ==
  \/ Validate
  \/ Consolidate
  \/ LogErrors
  \/ ReturnTrue
  \/ Call

Spec == Init /\ [][Next]_vars

---------------------------------------------------------------------------
(* Vocabulary of the properties                                            *)

TopKeys == {expected_format.fields[i].key :
              i \in 1..Len(expected_format.fields)}

\* The schema of field key of a schema dict.
FieldSchema(expected, key) ==
  LET i == CHOOSE j \in 1..Len(expected.fields) : expected.fields[j].key = key
  IN expected.fields[i].val

\* The document satisfies the schema: every required key present at every
\* mapping, every scalar an instance of an allowed type, every element of a
\* sequence conforming.
RECURSIVE Conforms(_, _)
Conforms(actual, expected) ==
  IF expected.k = "dict"
  THEN /\ actual.t = "dict"
       /\ \A i \in 1..Len(expected.fields) :
            /\ expected.fields[i].key \in DOMAIN actual.d
            /\ Conforms(actual.d[expected.fields[i].key], expected.fields[i].val)
  ELSE IF expected.k = "list"
  THEN /\ actual.t = "list"
       /\ \A i \in 1..Len(actual.l) : Conforms(actual.l[i], expected.elems[1])
  ELSE IF expected.k = "tuple"
  THEN \E i \in 1..Len(expected.types) :
         \/ actual.t = expected.types[i]
         \/ expected.types[i] = "int" /\ actual.t = "bool"
  ELSE \/ actual.t = expected.name
       \/ expected.name = "int" /\ actual.t = "bool"

\* A mapping that lacks top-level field f and conforms in every other one.
ConformsExcept(actual, f) ==
  /\ actual.t = "dict"
  /\ f \notin DOMAIN actual.d
  /\ \A g \in TopKeys \ {f} :
       /\ g \in DOMAIN actual.d
       /\ Conforms(actual.d[g], FieldSchema(expected_format, g))

\* The outcome of validate_format in the current call, once it has run.
Validated == pc # "loaded"
Outcome == history[Len(history)]

\* The message logged by the current call, once it has returned False.
Message == logged[Len(logged)]

---------------------------------------------------------------------------
(* C1                                                                      *)

\* C1: for every document that satisfies the schema (empty sequences
\* included), validate_format returns the empty list, check_resume_format
\* returns True, and the logger is never called.
C1_ConformingAccepted ==
  Conforms(actual_yaml_dict, expected_format) =>
    /\ pc # "raised"
    /\ exception = "None"
    /\ Validated => Outcome = Returned(<<>>) /\ errors = <<>>
    /\ pc = "returned" => result = Some(TRUE)
    /\ logged = <<>>

\* A conforming document with an empty 'skills' list has been accepted.
C1_Witness ==
  /\ Conforms(actual_yaml_dict, expected_format)
  /\ actual_yaml_dict.d.skills.l = <<>>
  /\ pc = "returned"
  /\ result = Some(TRUE)

---------------------------------------------------------------------------
(* C2                                                                      *)

\* C2: structural problems are never raised as exceptions: every call runs
\* to completion and returns a boolean, and with at least one discrepancy it
\* returns False and has called logger.error exactly once.
C2_NeverRaises ==
  /\ pc # "raised"
  /\ exception = "None"
  /\ pc = "returned" =>
       /\ result \in {Some(TRUE), Some(FALSE)}
       /\ errors # <<>> => result = Some(FALSE) /\ Len(logged) = log_mark + 1

---------------------------------------------------------------------------
(* C3                                                                      *)

\* Number of errors reported at exactly this path.
CountAt(errs, path) == Cardinality({i \in 1..Len(errs) : errs[i][1] = path})

\* <<i, j, f>>: entry i of 'experiences' is a mapping whose 'titles' is a
\* list whose item j is a mapping that has date field f (i, j from 0).
DateFields(actual) ==
  IF actual.t = "dict" /\ "experiences" \in DOMAIN actual.d
     /\ actual.d.experiences.t = "list"
  THEN {x \in (0..(Len(actual.d.experiences.l) - 1)) \X (0..MaxEntries)
                \X {"startdate", "enddate"} :
          LET e == actual.d.experiences.l[x[1] + 1]
          IN /\ e.t = "dict"
             /\ "titles" \in DOMAIN e.d
             /\ e.d.titles.t = "list"
             /\ x[2] < Len(e.d.titles.l)
             /\ e.d.titles.l[x[2] + 1].t = "dict"
             /\ x[3] \in DOMAIN e.d.titles.l[x[2] + 1].d}
  ELSE {}

DateValue(actual, x) ==
  actual.d.experiences.l[x[1] + 1].d.titles.l[x[2] + 1].d[x[3]]

DatePath(x) ==
  KeyPath(IndexPath(KeyPath(IndexPath(KeyPath(<<>>, "experiences"), x[1]),
                            "titles"), x[2]), x[3])

\* C3: a date field (integer-or-text) yields no discrepancy when its value
\* is an integer or a text, and exactly one discrepancy, at its own path,
\* when its value is of any other type.
C3_MultiTypeScalar ==
  Validated =>
    \A x \in DateFields(actual_yaml_dict) :
      IF DateValue(actual_yaml_dict, x).t \in {"int", "str"}
      THEN CountAt(Outcome.errors, DatePath(x)) = 0
      ELSE /\ Outcome.exc = "None"
           /\ CountAt(Outcome.errors, DatePath(x)) = 1

---------------------------------------------------------------------------
(* C4                                                                      *)

\* "experiences[i]"
EntryLabel(i) == IndexPath(Chars.experiences, i)

IsPrefix(s, u) == Len(s) <= Len(u) /\ SubSeq(u, 1, Len(s)) = s

\* The indices of the 'experiences' entries some discrepancy lies in.
MalformedEntries(errs) ==
  {i \in 0..MaxEntries :
     \E e \in 1..Len(errs) : IsPrefix(<<"/">> \o EntryLabel(i), errs[e][1])}

\* How often a label occurs in the text of one paragraph: among the joined
\* entries, among the joined missing keys, as the field of an incorrect
\* value, and as the section the paragraph names.
Occurrences(label, par) ==
  (IF label \in par.entries THEN 1 ELSE 0)
  + Cardinality({i \in 1..Len(par.missing_keys) : par.missing_keys[i] = label})
  + Cardinality({i \in 1..Len(par.incorrect) : par.incorrect[i][1] = label})
  + (IF par.main_key = label THEN 1 ELSE 0)

RECURSIVE OccurrencesIn(_, _, _)
OccurrencesIn(label, message, i) ==
  IF i > Len(message) THEN 0
  ELSE Occurrences(label, message[i]) + OccurrencesIn(label, message, i + 1)

\* C4: when 'experiences' has malformed entries, the message has one
\* paragraph listing exactly their labels, and each such label occurs in
\* the whole message exactly once; other entries are not named.
C4_EntryLabelsOnce ==
  (pc = "returned" /\ MalformedEntries(errors) # {}) =>
    /\ Cardinality({p \in 1..Len(Message) : Message[p].kind = "entries"}) = 1
    /\ \A p \in 1..Len(Message) :
         Message[p].kind = "entries" =>
           Message[p].entries = {EntryLabel(i) : i \in MalformedEntries(errors)}
    /\ \A i \in MalformedEntries(errors) :
         OccurrencesIn(EntryLabel(i), Message, 1) = 1

---------------------------------------------------------------------------
(* C5                                                                      *)

\* C5: a mapping that lacks one required top-level field f and otherwise
\* conforms yields exactly one discrepancy: 'missing', at the path whose
\* single segment is f.
C5_MissingTopLevelField ==
  \A f \in TopKeys :
    (Validated /\ ConformsExcept(actual_yaml_dict, f)) =>
      /\ Outcome.exc = "None"
      /\ Len(Outcome.errors) = 1
      /\ Outcome.errors[1][3] = "missing"
      /\ Outcome.errors[1][1] = <<"/">> \o Chars[f]
      /\ Split(Outcome.errors[1][1], "/") = << <<>>, Chars[f] >>
      /\ errors = Outcome.errors

\* Validation has run on a document that lacks only 'objective'.
C5_Witness ==
  /\ pc = "validated"
  /\ ConformsExcept(actual_yaml_dict, "objective")
  /\ Len(errors) = 1

---------------------------------------------------------------------------
(* C7                                                                      *)

\* An otherwise conforming mapping whose 'editing' is a text.
EditingIsText(actual) ==
  /\ actual.t = "dict"
  /\ "editing" \in DOMAIN actual.d
  /\ actual.d.editing.t = "str"
  /\ \A g \in TopKeys \ {"editing"} :
       /\ g \in DOMAIN actual.d
       /\ Conforms(actual.d[g], FieldSchema(expected_format, g))

\* The call returned False after logging one message of one paragraph that
\* reports field 'editing' of section 'editing': type str, expected bool.
EditingReported ==
  /\ exception = "None"
  /\ result = Some(FALSE)
  /\ Len(logged) = log_mark + 1
  /\ Len(Message) = 1
  /\ Message[1].kind = "incorrect"
  /\ Message[1].main_key = Chars.editing
  /\ Message[1].incorrect = << <<Chars.editing, "str", "bool">> >>

\* C7 as stated: 'editing' given as a text is reported without a crash, and
\* the report renders no example snippet for it.
C7_NoSnippetForEditing ==
  EditingIsText(actual_yaml_dict) =>
    /\ pc # "raised"
    /\ pc = "returned" =>
         /\ EditingReported
         /\ Message[1].example_snippet
              \notin {example_snippets[n] : n \in DOMAIN example_snippets}

\* C7 as the code has it: 'editing' given as a text is reported without a
\* crash, and the report renders the example declared for 'editing',
\* the text "editing: true".
C7_EditingSnippetRendered ==
  EditingIsText(actual_yaml_dict) =>
    /\ pc # "raised"
    /\ pc = "returned" =>
         /\ EditingReported
         /\ Message[1].example_snippet = "editing: true"

\* The call on a document whose only fault is a text 'editing' has returned.
C7_Witness ==
  /\ EditingIsText(actual_yaml_dict)
  /\ pc = "returned"
  /\ Len(logged) = 1

---------------------------------------------------------------------------
(* C8                                                                      *)

\* The top-level field a path lies under: its first segment without any
\* sequence index.
TopField(path) == Split(Split(path, "/")[2], "[")[1]

\* The distinct elements of a sequence in the order of first occurrence.
RECURSIVE FirstOccurrences(_, _)
FirstOccurrences(s, i) ==
  IF i > Len(s) THEN <<>>
  ELSE IF \E h \in 1..(i - 1) : s[h] = s[i]
       THEN FirstOccurrences(s, i + 1)
       ELSE <<s[i]>> \o FirstOccurrences(s, i + 1)

\* C8: consolidation groups by top-level section: every group is keyed by a
\* top-level field name, no two groups share a key, every discrepancy lies
\* in the group of its top-level field, and the groups stand in the order
\* in which their fields first occur among the discrepancies.
C8_GroupsByTopLevelField ==
  pc \in {"consolidated", "returned"} =>
    /\ \A g \in 1..Len(consolidated_errors) :
         consolidated_errors[g].key \in {Chars[f] : f \in TopKeys}
    /\ \A g, h \in 1..Len(consolidated_errors) :
         consolidated_errors[g].key = consolidated_errors[h].key => g = h
    /\ [g \in 1..Len(consolidated_errors) |-> consolidated_errors[g].key]
         = FirstOccurrences([e \in 1..Len(errors) |-> TopField(errors[e][1])], 1)
    /\ \A g \in 1..Len(consolidated_errors) :
         Len(consolidated_errors[g].missing) + Len(consolidated_errors[g].incorrect)
           = Cardinality({e \in 1..Len(errors) :
                            TopField(errors[e][1]) = consolidated_errors[g].key})

---------------------------------------------------------------------------
(* C9                                                                      *)

RECURSIVE Discrepancies(_, _, _)
RECURSIVE FieldDiscrepancies(_, _, _, _)
RECURSIVE ItemDiscrepancies(_, _, _, _)

\* The full depth-first pass C9 describes, as <<path, actual>> pairs: one
\* pair at a node of the wrong kind and nothing below it, one pair for a
\* missing key, then on with the next field or item in every case.
Discrepancies(actual, expected, path) ==
  IF expected.k = "dict"
  THEN IF actual.t # "dict" THEN << <<path, actual.t>> >>
       ELSE FieldDiscrepancies(actual, expected.fields, path, 1)
  ELSE IF expected.k = "list"
  THEN IF actual.t # "list" THEN << <<path, actual.t>> >>
       ELSE ItemDiscrepancies(actual.l, expected.elems[1], path, 1)
  ELSE IF Conforms(actual, expected) THEN <<>> ELSE << <<path, actual.t>> >>

FieldDiscrepancies(actual, fields, path, i) ==
  IF i > Len(fields) THEN <<>>
  ELSE (IF fields[i].key \in DOMAIN actual.d
        THEN Discrepancies(actual.d[fields[i].key], fields[i].val,
                           path \o <<"/">> \o Chars[fields[i].key])
        ELSE << <<path \o <<"/">> \o Chars[fields[i].key], "missing">> >>)
       \o FieldDiscrepancies(actual, fields, path, i + 1)

ItemDiscrepancies(items, expected0, path, i) ==
  IF i > Len(items) THEN <<>>
  ELSE Discrepancies(items[i], expected0,
                     path \o <<"[">> \o IntStr(i - 1) \o <<"]">>)
       \o ItemDiscrepancies(items, expected0, path, i + 1)

\* C9: validate_format completes one full pass and returns every
\* discrepancy of the document, in depth-first order, fields in schema
\* order and items in index order, nothing suppressed, nothing repeated.
C9_FullPass ==
  Validated =>
    /\ Outcome.exc = "None"
    /\ [e \in 1..Len(Outcome.errors) |->
          <<Outcome.errors[e][1], Outcome.errors[e][3]>>]
         = Discrepancies(actual_yaml_dict, expected_format, <<>>)

---------------------------------------------------------------------------
(* C10                                                                     *)

\* The document without the keys the schema does not name, at every depth
\* the schema reaches.
RECURSIVE StripExtra(_, _)
StripExtra(actual, expected) ==
  IF expected.k = "dict" /\ actual.t = "dict"
  THEN LET known == {expected.fields[i].key : i \in 1..Len(expected.fields)}
       IN PyDict([key \in (DOMAIN actual.d) \cap known |->
                    StripExtra(actual.d[key], FieldSchema(expected, key))])
  ELSE IF expected.k = "list" /\ actual.t = "list"
  THEN PyList([i \in 1..Len(actual.l) |-> StripExtra(actual.l[i], expected.elems[1])])
  ELSE actual

\* What a whole call on a document ends with: the exception and the result.
CallOutcome(actual) ==
  LET v == validate_format(actual, expected_format, <<>>)
      c == consolidate(<<>>, v.errors, 1)
  IN IF v.exc # "None" THEN <<v.exc, None>>
     ELSE IF c.exc # "None" THEN <<c.exc, None>>
     ELSE <<"None", Some(c.groups = <<>>)>>

\* C10: keys the schema does not name are ignored: the document and the
\* document without them get the same outcome from validate_format, and
\* the same result from check_resume_format.
C10_ExtraKeysIgnored ==
  /\ Validated =>
       Outcome = validate_format(StripExtra(actual_yaml_dict, expected_format),
                                 expected_format, <<>>)
  /\ pc \in {"returned", "raised"} =>
       <<exception, result>>
         = CallOutcome(StripExtra(actual_yaml_dict, expected_format))

\* A call has returned on a document with discrepancies and with keys the
\* schema does not name, at the root and inside 'basic'.
C10_Witness ==
  /\ pc = "returned"
  /\ errors # <<>>
  /\ actual_yaml_dict.t = "dict"
  /\ "summary" \in DOMAIN actual_yaml_dict.d
  /\ "basic" \in DOMAIN actual_yaml_dict.d
  /\ actual_yaml_dict.d.basic.t = "dict"
  /\ "nickname" \in DOMAIN actual_yaml_dict.d.basic.d
  /\ StripExtra(actual_yaml_dict, expected_format) # actual_yaml_dict

====
